---- MODULE Spec2Model ----
(***************************************************************************)
(* Model of services/discovery/src/app.py: the CloudFormation custom       *)
(* resource handler that collects CloudTrail / S3 / CUR coeffects and      *)
(* classifies an AWS account.                                              *)
(*                                                                         *)
(* Python values are records [t |-> <type name>, v |-> <payload>], the     *)
(* payload always being a sequence of strings: a str is the sequence of    *)
(* its characters (ARNs and account ids are spelled character by           *)
(* character, other texts as one token), a list the sequence of its        *)
(* (string) elements.  Python dicts are functions from key names to        *)
(* values.                                                                 *)
(***************************************************************************)
EXTENDS Integers, Sequences, FiniteSets, TLC

VARIABLES pc, event, pipe_value, world, status, sent, calls, raised, outcomes

vars == <<pc, event, pipe_value, world, status, sent, calls, raised, outcomes>>

(* ---------------- bounds of the model ---------------- *)
MaxTrails == 2
MaxReports == 2

(* ---------------- Python values ---------------- *)
Str(s) == [t |-> "str", v |-> s]
None == [t |-> "NoneType", v |-> <<>>]
True == [t |-> "bool", v |-> <<"True">>]
False == [t |-> "bool", v |-> <<"False">>]
Int5 == [t |-> "int", v |-> <<"5">>]
PyList(xs) == [t |-> "list", v |-> xs]
Bool(b) == IF b THEN True ELSE False
EmptyDict == [k \in {} |-> None]

PyEq(a, b) == a.t = b.t /\ a.v = b.v
IsStr(x) == x.t = "str"
IsBool(x) == x.t = "bool"
Truthy(x) == IF x.t = "NoneType" THEN FALSE
             ELSE IF x.t = "bool" THEN x.v = <<"True">>
             ELSE IF x.t = "int" THEN x.v # <<"0">>
             ELSE x.v # <<>>
Hashable(x) == x.t # "list"

(* toolz get_in for one level: a missing key gives the default *)
Get(d, k, default) == IF k \in DOMAIN d THEN d[k] ELSE default

(* toolz keyfilter *)
keyfilter_all(keys, d) == d
keyfilter(keys, d) == [k \in (DOMAIN d) \cap keys |-> d[k]]

(* toolz assoc_in(world, ['coeffects', name], data) *)
assoc_coeffect(w, name, data) ==
    LET old == Get(w, "coeffects", EmptyDict)
        new == [k \in (DOMAIN old) \cup {name} |-> IF k = name THEN data ELSE old[k]]
    IN  [k \in (DOMAIN w) \cup {"coeffects"} |-> IF k = "coeffects" THEN new ELSE w[k]]

(* toolz update_in(world, ['output'], lambda x: merge(x or {}, output)) *)
merge_output(w, output) ==
    LET old == Get(w, "output", EmptyDict)
        new == [k \in (DOMAIN old) \cup (DOMAIN output) |->
                    IF k \in DOMAIN output THEN output[k] ELSE old[k]]
    IN  [k \in (DOMAIN w) \cup {"output"} |-> IF k = "output" THEN new ELSE w[k]]

(* str.split(':'): the k-th segment lies between the (k-1)-th and the k-th colon *)
ColonAt(s, k) ==
    LET colons == {i \in 1..Len(s) : s[i] = ":"}
    IN  IF k = 0 THEN 0
        ELSE IF k > Cardinality(colons) THEN Len(s) + 1
        ELSE CHOOSE p \in colons : Cardinality({q \in colons : q < p}) = k - 1

(* the characters ARNs and account ids are spelled with *)
Chars == {"a", "s", "r", "t", "1", "2", ":"}

Split(s) ==
    LET split == [x \in Seq(Chars) |->
                    [k \in 1..(Cardinality({i \in 1..Len(x) : x[i] = ":"}) + 1) |->
                        SubSeq(x, ColonAt(x, k - 1) + 1, ColonAt(x, k) - 1)]]
    IN  split[s]

(* ---------------- constants of the program ---------------- *)
DEFAULT_OUTPUT ==
    [IsAuditAccount |-> False,
     AuditCloudTrailBucketName |-> None,
     IsConnectedAccount |-> False,
     IsCloudTrailAccount |-> False,
     CloudTrailSNSTopicArn |-> None,
     IsMasterPayerAccount |-> False,
     MasterPayerBillingBucketName |-> None]

SUCCESS == "SUCCESS"

(* ---------------- boundary validation ---------------- *)
RequestTypes == {Str(<<"Create">>), Str(<<"Update">>), Str(<<"Delete">>)}

INPUT_SCHEMA_valid(w) ==
    /\ "event" \in DOMAIN w
    /\ LET e == w["event"]
       IN  /\ "RequestType" \in DOMAIN e
           /\ \E r \in RequestTypes : PyEq(e["RequestType"], r)
           /\ "ResourceProperties" \in DOMAIN e
           /\ "AccountId" \in DOMAIN e["ResourceProperties"]
           /\ IsStr(e["ResourceProperties"]["AccountId"])
           /\ "ResponseURL" \in DOMAIN e
           /\ IsStr(e["ResponseURL"])
           /\ "StackId" \in DOMAIN e
           /\ IsStr(e["StackId"])

(* extra=REMOVE_EXTRA: only the keys of the schema survive *)
INPUT_SCHEMA(w) ==
    LET e == w["event"]
    IN  [event |->
            [RequestType |-> e["RequestType"],
             ResourceProperties |-> [AccountId |-> e["ResourceProperties"]["AccountId"]],
             ResponseURL |-> e["ResponseURL"],
             StackId |-> e["StackId"]]]

BoolFields == {"IsAuditAccount", "IsConnectedAccount", "IsCloudTrailAccount",
               "IsMasterPayerAccount"}
NullableFields == {"AuditCloudTrailBucketName", "CloudTrailSNSTopicArn",
                   "MasterPayerBillingBucketName"}

OUTPUT_SCHEMA_valid(w) ==
    /\ "output" \in DOMAIN w
    /\ \A f \in BoolFields : f \in DOMAIN w["output"] /\ IsBool(w["output"][f])
    /\ \A f \in NullableFields :
          /\ f \in DOMAIN w["output"]
          /\ (PyEq(w["output"][f], None) \/ IsStr(w["output"][f]))

event_account_id(w) == w["event"]["ResourceProperties"]["AccountId"]

(* ---------------- business logic ---------------- *)
(* get_in(['coeffects', name, key], world, []) *)
coeffect_items(w, name, key) ==
    Get(Get(Get(w, "coeffects", EmptyDict), name, EmptyDict), key, <<>>)

(* {x['Name'] for x in get_in(['coeffects', 's3', 'Buckets'], world, [])} *)
local_buckets(w) ==
    LET buckets == coeffect_items(w, "s3", "Buckets")
    IN  {buckets[i]["Name"] : i \in 1..Len(buckets)}

(* get_in(['coeffects', 'cloudtrail', 'trailList', 0, 'S3BucketName'], world) *)
audit_trail_bucket(w) ==
    LET trails == coeffect_items(w, "cloudtrail", "trailList")
    IN  IF Len(trails) >= 1 THEN Get(trails[1], "S3BucketName", None) ELSE None

(* `trail_bucket in local_buckets` hashes trail_bucket: TypeError if unhashable *)
discover_audit_account_raises(w) == ~Hashable(audit_trail_bucket(w))

discover_audit_account(w) ==
    LET trail_bucket == audit_trail_bucket(w)
        output == [IsAuditAccount |-> Bool(trail_bucket \in local_buckets(w)),
                   AuditCloudTrailBucketName |-> trail_bucket]
    IN  merge_output(w, output)

discover_connected_account_false(w) ==
    merge_output(w, [IsConnectedAccount |-> False])
discover_connected_account(w) ==
    merge_output(w, [IsConnectedAccount |-> True])

HasStr(x, k) == k \in DOMAIN x /\ IsStr(x[k])
HasLiteral(x, k, lit) == k \in DOMAIN x /\ PyEq(x[k], lit)

MINIMUM_CLOUDTRAIL_CONFIGURATION(x) ==
    /\ HasStr(x, "S3BucketName")
    /\ HasStr(x, "SnsTopicName")
    /\ HasStr(x, "SnsTopicARN")
    /\ HasLiteral(x, "IsMultiRegionTrail", True)
    /\ HasStr(x, "TrailARN")

IDEAL_CLOUDTRAIL_CONFIGURATION(x) ==
    /\ MINIMUM_CLOUDTRAIL_CONFIGURATION(x)
    /\ HasLiteral(x, "IsOrganizationTrail", True)

MINIMUM_BILLING_REPORT(x) ==
    /\ HasLiteral(x, "TimeUnit", Str(<<"HOURLY">>))
    /\ HasLiteral(x, "Format", Str(<<"textORcsv">>))
    /\ HasLiteral(x, "Compression", Str(<<"GZIP">>))
    /\ HasLiteral(x, "AdditionalSchemaElements", PyList(<<"RESOURCES">>))
    /\ HasStr(x, "S3Bucket")
    /\ HasStr(x, "S3Prefix")
    /\ HasStr(x, "S3Region")
    /\ HasLiteral(x, "ReportVersioning", Str(<<"CREATE_NEW_REPORT">>))
    /\ HasLiteral(x, "RefreshClosedReports", True)

(* schema(data): whether the voluptuous schema of that name accepts data *)
Validates(schema, data) ==
    CASE schema = "IDEAL_CLOUDTRAIL_CONFIGURATION" -> IDEAL_CLOUDTRAIL_CONFIGURATION(data)
      [] schema = "MINIMUM_CLOUDTRAIL_CONFIGURATION" -> MINIMUM_CLOUDTRAIL_CONFIGURATION(data)
      [] schema = "MINIMUM_BILLING_REPORT" -> MINIMUM_BILLING_REPORT(data)

safe_check(schema, data) == IF Validates(schema, data) THEN data ELSE None

keep_valid(schema, xs) ==
    LET checked == [i \in 1..Len(xs) |-> safe_check(schema, xs[i])]
    IN  SelectSeq(checked, LAMBDA y : y # None)

get_first_valid_trail(trails) ==
    IF trails # <<>> THEN trails[1]["SnsTopicARN"] ELSE None

(* keep_valid(IDEAL, trails) or keep_valid(MINIMUM, trails) *)
valid_trails_minimum_first(trails) ==
    LET minimum == keep_valid("MINIMUM_CLOUDTRAIL_CONFIGURATION", trails)
    IN  IF minimum # <<>> THEN minimum
        ELSE keep_valid("IDEAL_CLOUDTRAIL_CONFIGURATION", trails)
valid_trails(trails) ==
    LET ideal == keep_valid("IDEAL_CLOUDTRAIL_CONFIGURATION", trails)
    IN  IF ideal # <<>> THEN ideal
        ELSE keep_valid("MINIMUM_CLOUDTRAIL_CONFIGURATION", trails)

trail_topic(w) ==
    get_first_valid_trail(valid_trails(coeffect_items(w, "cloudtrail", "trailList")))

(* zero-based index of the account id in trail_topic.split(':') *)
ARN_ACCOUNT_INDEX == 4

(* trail_topic.split(':')[4]: IndexError when there are fewer than five segments *)
discover_cloudtrail_account_raises(w) ==
    /\ Truthy(trail_topic(w))
    /\ Len(Split(trail_topic(w).v)) < ARN_ACCOUNT_INDEX + 1

arn_account_id(topic) ==
    IF Truthy(topic) THEN Str(Split(topic.v)[ARN_ACCOUNT_INDEX + 1]) ELSE None

discover_cloudtrail_account(w) ==
    LET topic == trail_topic(w)
        account_id == arn_account_id(topic)
        output == [IsCloudTrailAccount |-> Bool(PyEq(account_id, event_account_id(w))),
                   CloudTrailSNSTopicArn |-> topic]
    IN  merge_output(w, output)

(* any(xs) over a list of dicts: some dict is non-empty *)
PyAny(xs) == \E i \in 1..Len(xs) : DOMAIN xs[i] # {}

get_first_valid_report_definition_s3_bucket(valid_report_definitions, default) ==
    IF PyAny(valid_report_definitions)
    THEN valid_report_definitions[1]["S3Bucket"]
    ELSE default

discover_master_payer_account_no_fallback(w) ==
    LET report_definitions == coeffect_items(w, "cur", "ReportDefinitions")
        valid_report_definitions == keep_valid("MINIMUM_BILLING_REPORT", report_definitions)
        valid_local_report_definitions ==
            SelectSeq(valid_report_definitions,
                      LAMBDA x : x["S3Bucket"] \in local_buckets(w))
        output ==
            [IsMasterPayerAccount |-> Bool(PyAny(valid_local_report_definitions)),
             MasterPayerBillingBucketName |->
                get_first_valid_report_definition_s3_bucket(
                    valid_local_report_definitions, None)]
    IN  merge_output(w, output)
discover_master_payer_account(w) ==
    LET report_definitions == coeffect_items(w, "cur", "ReportDefinitions")
        buckets == local_buckets(w)
        valid_report_definitions == keep_valid("MINIMUM_BILLING_REPORT", report_definitions)
        default_s3_bucket ==
            get_first_valid_report_definition_s3_bucket(valid_report_definitions, None)
        valid_local_report_definitions ==
            SelectSeq(valid_report_definitions, LAMBDA x : x["S3Bucket"] \in buckets)
        local == PyAny(valid_local_report_definitions)
        output ==
            [IsMasterPayerAccount |-> Bool(local),
             MasterPayerBillingBucketName |->
                get_first_valid_report_definition_s3_bucket(
                    valid_local_report_definitions, default_s3_bucket)]
    IN  merge_output(w, output)

(* ---------------- the outside world: inputs of the model ---------------- *)
Account1 == <<"1">>
Account2 == <<"2">>
ArnAccount1 == <<"a", ":", "a", ":", "s", ":", "r", ":", "1", ":", "t">>
ArnAccount2 == <<"a", ":", "a", ":", "s", ":", "r", ":", "2", ":", "t">>
ArnShort == <<"a", ":", "1">>
ArnEmpty == <<>>
BucketB == Str(<<"b">>)
BucketC == Str(<<"c">>)

EventCreate ==
    [RequestType |-> Str(<<"Create">>),
     ResourceProperties |-> [AccountId |-> Str(Account1), ServiceToken |-> Str(<<"f">>)],
     ResponseURL |-> Str(<<"u">>),
     StackId |-> Str(<<"s">>),
     RequestId |-> Str(<<"q">>),
     PhysicalResourceId |-> Str(<<"p">>)]
EventUpdate ==
    [RequestType |-> Str(<<"Update">>),
     ResourceProperties |-> [AccountId |-> Str(Account2)],
     ResponseURL |-> Str(<<"u">>),
     StackId |-> Str(<<"s">>)]
EventNoAccountId ==
    [RequestType |-> Str(<<"Create">>),
     ResourceProperties |-> [ServiceToken |-> Str(<<"f">>)],
     ResponseURL |-> Str(<<"u">>),
     StackId |-> Str(<<"s">>)]
EventIntAccountId ==
    [RequestType |-> Str(<<"Delete">>),
     ResourceProperties |-> [AccountId |-> Int5],
     ResponseURL |-> Str(<<"u">>),
     StackId |-> Str(<<"s">>)]
EventBadRequestType ==
    [RequestType |-> Str(<<"Read">>),
     ResourceProperties |-> [AccountId |-> Str(Account1)],
     ResponseURL |-> Str(<<"u">>),
     StackId |-> Str(<<"s">>)]
EventNoResponseURL ==
    [RequestType |-> Str(<<"Create">>),
     ResourceProperties |-> [AccountId |-> Str(Account1)],
     StackId |-> Str(<<"s">>)]

Events == {EventCreate, EventUpdate, EventNoAccountId, EventIntAccountId,
           EventBadRequestType, EventNoResponseURL}

TrailIdeal ==
    [S3BucketName |-> BucketB, SnsTopicName |-> Str(<<"t">>),
     SnsTopicARN |-> Str(ArnAccount1), IsMultiRegionTrail |-> True,
     TrailARN |-> Str(<<"r">>), IsOrganizationTrail |-> True]
TrailMinimum ==
    [S3BucketName |-> BucketC, SnsTopicName |-> Str(<<"t">>),
     SnsTopicARN |-> Str(ArnAccount2), IsMultiRegionTrail |-> True,
     TrailARN |-> Str(<<"r">>), IsOrganizationTrail |-> False]
TrailNoBucket ==
    [SnsTopicName |-> Str(<<"t">>),
     SnsTopicARN |-> Str(ArnAccount1), IsMultiRegionTrail |-> True,
     TrailARN |-> Str(<<"r">>), IsOrganizationTrail |-> True]
TrailIntBucket ==
    [S3BucketName |-> Int5, SnsTopicName |-> Str(<<"t">>),
     SnsTopicARN |-> Str(ArnAccount1), IsMultiRegionTrail |-> True,
     TrailARN |-> Str(<<"r">>), IsOrganizationTrail |-> True]
TrailShortArn ==
    [S3BucketName |-> BucketB, SnsTopicName |-> Str(<<"t">>),
     SnsTopicARN |-> Str(ArnShort), IsMultiRegionTrail |-> True,
     TrailARN |-> Str(<<"r">>)]
TrailEmptyArn ==
    [S3BucketName |-> BucketC, SnsTopicName |-> Str(<<"t">>),
     SnsTopicARN |-> Str(ArnEmpty), IsMultiRegionTrail |-> True,
     TrailARN |-> Str(<<"r">>), IsOrganizationTrail |-> True]

Trails == {TrailIdeal, TrailMinimum, TrailNoBucket, TrailIntBucket,
           TrailShortArn, TrailEmptyArn}

Report(bucket, format) ==
    [TimeUnit |-> Str(<<"HOURLY">>), Format |-> Str(<<format>>),
     Compression |-> Str(<<"GZIP">>),
     AdditionalSchemaElements |-> PyList(<<"RESOURCES">>),
     S3Bucket |-> bucket, S3Prefix |-> Str(<<"x">>), S3Region |-> Str(<<"r">>),
     ReportVersioning |-> Str(<<"CREATE_NEW_REPORT">>),
     RefreshClosedReports |-> True, ReportName |-> Str(<<"n">>)]
ReportB == Report(BucketB, "textORcsv")
ReportC == Report(BucketC, "textORcsv")
ReportParquet == Report(BucketB, "Parquet")

Reports == {ReportB, ReportC, ReportParquet}

BucketLists == {<<>>, <<[Name |-> BucketB]>>, <<[Name |-> BucketC], [Name |-> BucketB]>>}

SeqsUpTo(S, n) == UNION {[1..k -> S] : k \in 0..n}
TrailLists == SeqsUpTo(Trails, MaxTrails)
ReportLists == SeqsUpTo(Reports, MaxReports)

ResponseMetadata == Str(<<"m">>)

(* ---------------- the handler, one step per stage ---------------- *)
Put(d, k, x) == [j \in (DOMAIN d) \cup {k} |-> IF j = k THEN x ELSE d[j]]

Init ==
    /\ event \in Events
    /\ pc = "Start"
    /\ pipe_value = [event |-> event, kwargs |-> EmptyDict]
    /\ world = EmptyDict
    /\ status = SUCCESS
    /\ sent = <<>>
    /\ calls = <<>>
    /\ raised = FALSE
    /\ outcomes = EmptyDict

(* an exception leaves pipe(): `world = pipe(...)` is not executed *)
world_after_raise_partial(w, inpipe) == inpipe
world_after_raise(w, inpipe) == w

(* one stage of a pipe(): it either raises into the handler's except clause
   or hands its result to the next stage *)
Stage_swallows(name, from, to, raises, result) ==
    /\ pc = from
    /\ calls' = Append(calls, name)
    /\ pc' = to
    /\ IF raises
       THEN raised' = TRUE /\ UNCHANGED pipe_value
       ELSE pipe_value' = result /\ UNCHANGED raised
    /\ UNCHANGED <<event, world, status, sent, outcomes>>
Stage(name, from, to, raises, result) ==
    /\ pc = from
    /\ calls' = Append(calls, name)
    /\ IF raises
       THEN /\ pc' = "Failed"
            /\ raised' = TRUE
            /\ world' = world_after_raise(world, pipe_value)
            /\ UNCHANGED pipe_value
       ELSE /\ pc' = to
            /\ pipe_value' = result
            /\ UNCHANGED <<raised, world>>
    /\ UNCHANGED <<event, status, sent, outcomes>>

validate_input ==
    Stage("INPUT_SCHEMA", "Start", "InputValidated",
          ~INPUT_SCHEMA_valid(pipe_value), INPUT_SCHEMA(pipe_value))

(* the decorator coeffect(name): data = {} unless f(world) returns *)
coeffect(name, f_raises, f_data, w) ==
    assoc_coeffect(w, name, IF f_raises THEN EmptyDict ELSE f_data)

Fetch(name, key, from, to, Lists) ==
    /\ pc = from
    /\ pc' = to
    /\ calls' = Append(calls, name)
    /\ \/ /\ outcomes' = Put(outcomes, name, [raises |-> TRUE, items |-> <<>>])
          /\ pipe_value' = coeffect(name, TRUE, EmptyDict, pipe_value)
       \/ \E xs \in Lists :
            LET response == Put(Put(EmptyDict, key, xs),
                                "ResponseMetadata", ResponseMetadata)
            IN  /\ outcomes' = Put(outcomes, name, [raises |-> FALSE, items |-> xs])
                /\ pipe_value' = coeffect(name, FALSE,
                                          keyfilter({key}, response), pipe_value)
    /\ UNCHANGED <<event, world, status, sent, raised>>

coeffects_cloudtrail ==
    Fetch("cloudtrail", "trailList", "InputValidated", "CloudTrailCollected", TrailLists)

coeffects_s3 ==
    Fetch("s3", "Buckets", "CloudTrailCollected", "S3Collected", BucketLists)

coeffects_cur ==
    Fetch("cur", "ReportDefinitions", "S3Collected", "CoeffectsCollected", ReportLists)

audit_step ==
    Stage("discover_audit_account", "CoeffectsCollected", "AuditClassified",
          discover_audit_account_raises(pipe_value), discover_audit_account(pipe_value))

connected_step ==
    Stage("discover_connected_account", "AuditClassified", "ConnectedClassified",
          FALSE, discover_connected_account(pipe_value))

cloudtrail_step ==
    Stage("discover_cloudtrail_account", "ConnectedClassified", "CloudTrailClassified",
          discover_cloudtrail_account_raises(pipe_value),
          discover_cloudtrail_account(pipe_value))

master_payer_step ==
    Stage("discover_master_payer_account", "CloudTrailClassified", "Classified",
          FALSE, discover_master_payer_account(pipe_value))

(* OUTPUT_SCHEMA is the last stage: when it returns, `world = pipe(...)` is assigned *)
validate_output ==
    /\ pc = "Classified"
    /\ calls' = Append(calls, "OUTPUT_SCHEMA")
    /\ IF ~OUTPUT_SCHEMA_valid(pipe_value)
       THEN /\ pc' = "Failed"
            /\ raised' = TRUE
            /\ world' = world_after_raise(world, pipe_value)
       ELSE /\ pc' = "OutputValidated"
            /\ world' = pipe_value
            /\ UNCHANGED raised
    /\ UNCHANGED <<event, pipe_value, status, sent, outcomes>>

(* the finally clause *)
respond_only_on_success ==
    /\ pc = "OutputValidated"
    /\ pc' = "Responded"
    /\ calls' = Append(calls, "cfnresponse.send")
    /\ sent' = Append(sent, [event |-> event, status |-> status,
                             output |-> Get(world, "output", DEFAULT_OUTPUT),
                             physicalResourceId |-> Get(event, "PhysicalResourceId", None)])
    /\ UNCHANGED <<event, pipe_value, world, status, raised, outcomes>>
respond ==
    /\ pc \in {"OutputValidated", "Failed"}
    /\ pc' = "Responded"
    /\ calls' = Append(calls, "cfnresponse.send")
    /\ sent' = Append(sent, [event |-> event, status |-> status,
                             output |-> Get(world, "output", DEFAULT_OUTPUT),
                             physicalResourceId |-> Get(event, "PhysicalResourceId", None)])
    /\ UNCHANGED <<event, pipe_value, world, status, raised, outcomes>>

Next ==
    \/ validate_input
    \/ coeffects_cloudtrail
    \/ coeffects_s3
    \/ coeffects_cur
    \/ audit_step
    \/ connected_step
    \/ cloudtrail_step
    \/ master_payer_step
    \/ validate_output
    \/ respond

Spec == Init /\ [][Next]_vars

(* the handler is straight-line code: an enabled step is eventually taken *)
FairSpec == Spec /\ WF_vars(Next)

(* ---------------- observations used by the properties ---------------- *)
Responded == pc = "Responded"
OutputFields == BoolFields \cup NullableFields
Fetchers == {"cloudtrail", "s3", "cur"}
Called(name) == \E i \in 1..Len(calls) : calls[i] = name

(* what the three APIs returned to this run (an API that raised returned nothing) *)
FetchedTrails == IF "cloudtrail" \in DOMAIN outcomes THEN outcomes["cloudtrail"].items ELSE <<>>
FetchedReports == IF "cur" \in DOMAIN outcomes THEN outcomes["cur"].items ELSE <<>>
FetchedBucketNames ==
    IF "s3" \in DOMAIN outcomes
    THEN {outcomes["s3"].items[i]["Name"] : i \in 1..Len(outcomes["s3"].items)}
    ELSE {}

HasOutput(f) == "output" \in DOMAIN pipe_value /\ f \in DOMAIN pipe_value["output"]

(* C1: a run that ended in Failed passes the failure status to the responder;
   the success status is sent only when the pipeline reached OutputValidated. *)
C1_FailureStatus ==
    \A i \in 1..Len(sent) :
        /\ raised => sent[i].status = "FAILED"
        /\ sent[i].status = SUCCESS => ~raised

(* C2: the output record sent is either the validated seven-field record of a
   run that passed OUTPUT_SCHEMA or exactly DEFAULT_OUTPUT, never a partial one. *)
C2_OutputAllOrNothing ==
    \A i \in 1..Len(sent) :
        LET o == sent[i].output
        IN  /\ raised => o = DEFAULT_OUTPUT
            /\ ~raised =>
                 /\ calls[Len(calls) - 1] = "OUTPUT_SCHEMA"
                 /\ DOMAIN o = OutputFields
                 /\ \A f \in BoolFields : o[f].t = "bool"
                 /\ \A f \in NullableFields : o[f].t \in {"str", "NoneType"}
                 /\ o = pipe_value["output"]

(* a run that raised after classification rules had written fields answered
   with the defaults *)
C2_Witness ==
    /\ Responded
    /\ raised
    /\ HasOutput("IsConnectedAccount")
    /\ sent[1].output = DEFAULT_OUTPUT

(* C3: every run eventually reaches Responded having sent exactly one
   response, and never holds more than one. *)
C3_ExactlyOneResponse ==
    /\ [](Len(sent) <= 1)
    /\ [](Responded => Len(sent) = 1)
    /\ <>(Responded /\ Len(sent) = 1)

(* a run in which a classification rule raised has responded once *)
C3_Witness ==
    /\ Responded
    /\ raised
    /\ Called("discover_cloudtrail_account")
    /\ ~Called("discover_master_payer_account")
    /\ \E n \in Fetchers : outcomes[n].raises
    /\ Len(sent) = 1

(* C4: whichever fetchers raise, all three are invoked, no error propagates,
   coeffects has exactly the keys cloudtrail, s3, cur with an empty mapping
   for each failed category and the projected data for the others, and the
   pipeline goes on to classification. *)
CoeffectKey(name) ==
    IF name = "cloudtrail" THEN "trailList"
    ELSE IF name = "s3" THEN "Buckets" ELSE "ReportDefinitions"

C4_CoeffectsIsolated ==
    /\ pc \in {"CloudTrailCollected", "S3Collected", "CoeffectsCollected"} => ~raised
    /\ Called("cloudtrail") /\ pc # "CloudTrailCollected" => Called("s3")
    /\ Called("s3") /\ pc # "S3Collected" => Called("cur")
    /\ Called("cur") =>
         /\ DOMAIN outcomes = Fetchers
         /\ DOMAIN pipe_value["coeffects"] = Fetchers
         /\ \A n \in Fetchers :
              LET data == pipe_value["coeffects"][n]
              IN  IF outcomes[n].raises
                  THEN DOMAIN data = {}
                  ELSE /\ DOMAIN data = {CoeffectKey(n)}
                       /\ data[CoeffectKey(n)] = outcomes[n].items
         /\ pc # "CoeffectsCollected" => Called("discover_audit_account")

(* cloudtrail raised, s3 and cur delivered data, and the run was classified *)
C4_Witness ==
    /\ pc = "Classified"
    /\ outcomes["cloudtrail"].raises
    /\ ~outcomes["s3"].raises /\ outcomes["s3"].items # <<>>
    /\ ~outcomes["cur"].raises /\ outcomes["cur"].items # <<>>
    /\ pipe_value["output"]["IsMasterPayerAccount"] = True

(* C5: trails or report definitions failing their validity schema never abort
   the pipeline: the run reaches OutputValidated and the response is not the
   all-defaults record.  (Schema-valid trails are taken with a topic ARN that
   is empty or has its five segments.) *)
WellFormedArn(x) ==
    "SnsTopicARN" \in DOMAIN x /\ x["SnsTopicARN"].t = "str"
        => \/ x["SnsTopicARN"].v = <<>>
           \/ Cardinality({i \in 1..Len(x["SnsTopicARN"].v) :
                              x["SnsTopicARN"].v[i] = ":"}) >= ARN_ACCOUNT_INDEX

C5_MalformedNeverAborts ==
    /\ Responded
    /\ Called("cur")
    /\ \A i \in 1..Len(FetchedTrails) : WellFormedArn(FetchedTrails[i])
    => /\ ~raised
       /\ sent[1].output # DEFAULT_OUTPUT

(* C6: the topic ARN is that of the first ideal-valid trail if there is one,
   otherwise that of the first minimum-valid trail; trails failing both
   schemas never change the choice. *)
FirstIndex(xs, P(_)) ==
    CHOOSE i \in 1..Len(xs) : P(xs[i]) /\ \A j \in 1..(i - 1) : ~P(xs[j])
Some(xs, P(_)) == \E i \in 1..Len(xs) : P(xs[i])

ExpectedTopic ==
    IF Some(FetchedTrails, IDEAL_CLOUDTRAIL_CONFIGURATION)
    THEN FetchedTrails[FirstIndex(FetchedTrails,
                                  IDEAL_CLOUDTRAIL_CONFIGURATION)]["SnsTopicARN"]
    ELSE IF Some(FetchedTrails, MINIMUM_CLOUDTRAIL_CONFIGURATION)
    THEN FetchedTrails[FirstIndex(FetchedTrails,
                                  MINIMUM_CLOUDTRAIL_CONFIGURATION)]["SnsTopicARN"]
    ELSE None

C6_IdealTakesPrecedence ==
    HasOutput("CloudTrailSNSTopicArn") =>
        pipe_value["output"]["CloudTrailSNSTopicArn"] = ExpectedTopic

(* a minimum-only trail comes first, an ideal trail second, and the ideal
   trail's topic was chosen *)
C6_Witness ==
    /\ HasOutput("CloudTrailSNSTopicArn")
    /\ Len(FetchedTrails) = 2
    /\ MINIMUM_CLOUDTRAIL_CONFIGURATION(FetchedTrails[1])
    /\ ~IDEAL_CLOUDTRAIL_CONFIGURATION(FetchedTrails[1])
    /\ IDEAL_CLOUDTRAIL_CONFIGURATION(FetchedTrails[2])
    /\ FetchedTrails[1]["SnsTopicARN"] # FetchedTrails[2]["SnsTopicARN"]
    /\ pipe_value["output"]["CloudTrailSNSTopicArn"] = FetchedTrails[2]["SnsTopicARN"]

(* C7: IsMasterPayerAccount is true exactly when some schema-valid report has
   its S3Bucket among the local bucket names; the bucket name is that of the
   first local valid report, else of the first valid report, else null. *)
LocalValidReport(x) == MINIMUM_BILLING_REPORT(x) /\ x["S3Bucket"] \in FetchedBucketNames

ExpectedBillingBucket ==
    IF Some(FetchedReports, LocalValidReport)
    THEN FetchedReports[FirstIndex(FetchedReports, LocalValidReport)]["S3Bucket"]
    ELSE IF Some(FetchedReports, MINIMUM_BILLING_REPORT)
    THEN FetchedReports[FirstIndex(FetchedReports, MINIMUM_BILLING_REPORT)]["S3Bucket"]
    ELSE None

C7_MasterPayer ==
    HasOutput("MasterPayerBillingBucketName") =>
        /\ pipe_value["output"]["IsMasterPayerAccount"] =
              Bool(Some(FetchedReports, LocalValidReport))
        /\ pipe_value["output"]["MasterPayerBillingBucketName"] = ExpectedBillingBucket

(* valid reports exist, none is local: the flag is false and the name is the
   first valid report's bucket *)
C7_Witness ==
    /\ HasOutput("MasterPayerBillingBucketName")
    /\ Len(FetchedReports) = 2
    /\ ~MINIMUM_BILLING_REPORT(FetchedReports[1])
    /\ MINIMUM_BILLING_REPORT(FetchedReports[2])
    /\ FetchedBucketNames # {}
    /\ pipe_value["output"]["IsMasterPayerAccount"] = False
    /\ pipe_value["output"]["MasterPayerBillingBucketName"] = FetchedReports[2]["S3Bucket"]

(* C8: whenever some trail validates, discover_cloudtrail_account does not
   raise, stores the chosen topic ARN, and IsCloudTrailAccount is true exactly
   when the fifth colon-delimited segment of that ARN is the input accountId,
   for every string the ARN can be. *)
FifthSegmentIs(arn, account) ==
    \E i, j \in 0..(Len(arn) + 1) :
        /\ i < j
        /\ i = 0 \/ arn[i] = ":"
        /\ j = Len(arn) + 1 \/ arn[j] = ":"
        /\ Cardinality({k \in 1..i : arn[k] = ":"}) = ARN_ACCOUNT_INDEX
        /\ \A k \in (i + 1)..(j - 1) : arn[k] # ":"
        /\ SubSeq(arn, i + 1, j - 1) = account

C8_AccountFromArn ==
    /\ Called("discover_cloudtrail_account")
    /\ Some(FetchedTrails, MINIMUM_CLOUDTRAIL_CONFIGURATION)
    => /\ HasOutput("CloudTrailSNSTopicArn")
       /\ pipe_value["output"]["CloudTrailSNSTopicArn"] = ExpectedTopic
       /\ pipe_value["output"]["IsCloudTrailAccount"] =
             Bool(FifthSegmentIs(ExpectedTopic.v,
                                 event["ResourceProperties"]["AccountId"].v))

(* C9: with an empty trailList (or a failed trail fetch) a valid input always
   succeeds with the four trail fields at their empty values and
   IsConnectedAccount true. *)
C9_NoTrails ==
    /\ Responded
    /\ Called("cloudtrail")
    /\ FetchedTrails = <<>>
    => /\ ~raised
       /\ sent[1].output["IsAuditAccount"] = False
       /\ sent[1].output["AuditCloudTrailBucketName"] = None
       /\ sent[1].output["IsCloudTrailAccount"] = False
       /\ sent[1].output["CloudTrailSNSTopicArn"] = None
       /\ sent[1].output["IsConnectedAccount"] = True

(* the trail fetch delivered an empty list, buckets and reports exist *)
C9_Witness ==
    /\ Responded
    /\ Called("cloudtrail")
    /\ ~outcomes["cloudtrail"].raises
    /\ FetchedTrails = <<>>
    /\ FetchedBucketNames # {}
    /\ FetchedReports # <<>>
    /\ sent[1].output["IsConnectedAccount"] = True
    /\ sent[1].output["IsMasterPayerAccount"] = True

(* C10: the stages run in the strict pipeline order, each at most once; once
   a stage has raised nothing but the response follows; an input failing
   INPUT_SCHEMA causes no fetcher to be invoked. *)
PipelineOrder ==
    <<"INPUT_SCHEMA", "cloudtrail", "s3", "cur",
      "discover_audit_account", "discover_connected_account",
      "discover_cloudtrail_account", "discover_master_payer_account",
      "OUTPUT_SCHEMA">>

StagesRun ==
    IF calls # <<>> /\ calls[Len(calls)] = "cfnresponse.send"
    THEN SubSeq(calls, 1, Len(calls) - 1)
    ELSE calls

C10_StrictOrder ==
    /\ [](/\ Len(StagesRun) <= Len(PipelineOrder)
          /\ StagesRun = SubSeq(PipelineOrder, 1, Len(StagesRun))
          /\ Responded /\ ~raised => StagesRun = PipelineOrder
          /\ "AccountId" \notin DOMAIN event["ResourceProperties"]
                => \A n \in Fetchers : ~Called(n))
    /\ [][raised => calls' = Append(calls, "cfnresponse.send")]_vars

(* the input failed INPUT_SCHEMA and the response followed at once *)
C10_Witness ==
    /\ Responded
    /\ "AccountId" \notin DOMAIN event["ResourceProperties"]
    /\ calls = <<"INPUT_SCHEMA", "cfnresponse.send">>

====
